---- MODULE Spec2Model ----
(***************************************************************************)
(* The MCDA geoprocessing pipeline of src/src/crud/mcda.py and the two     *)
(* request handlers of src/src/routes/mcda.py:                             *)
(*   upload_file       save five uploads, buffer -> rasterize -> mask ->   *)
(*                     upload for the river, road and settlement layers    *)
(*   weighted_overlay  presign three fixed keys, fetch, weighted sum,      *)
(*                     write the fixed output path, upload it              *)
(* over the shared staging directory /tmp, the object store bucket1 and    *)
(* the event loops of the worker processes that serve the requests.        *)
(*                                                                         *)
(* Abstractions.  A raster is a grid of integers (pixel values and weights *)
(* are integers, on which float32/float64 arithmetic is exact); a geometry *)
(* is the set of cells of the pixel grid it touches and the subset whose   *)
(* centre it covers; a vector file is a feature list of which the first    *)
(* `lead` features lie outside the grid.  File names are strings built as  *)
(* the code builds them, so that two paths that spell the same name are    *)
(* the same file.  A failure of the environment (the store, the disk, a     *)
(* library call) can end any stage.                                        *)
(*                                                                         *)
(* Spec runs MaxRequests requests over the shared state; SpecOverlay and   *)
(* SpecRasterize run perform_weighted_overlay and rasterize_vector alone   *)
(* on inputs drawn from bounded sets.  hist, putlog and overlaid are       *)
(* history variables: no action reads them to decide what the program does.*)
(***************************************************************************)
EXTENDS Integers, Sequences, FiniteSets, TLC

\* ------------------------------------------------------------- bounds
MaxH == 2          \* rows of the largest reference raster
MaxW == 2          \* columns of the largest reference raster
MaxGeoms == 2      \* features of a drawn layer that lie on the grid
MaxRasters == 3    \* rasters of a drawn perform_weighted_overlay call
MaxRequests == 2   \* requests served in one run
MaxWorkers == 2    \* worker processes (one event loop each)

\* ------------------------------------------------- program constants
fill == -99999
Uint8Max == 255
bucket_name == "bucket1"

\* ---------------------------------------------------------- rasters
Cells(h, w) == (1..h) \X (1..w)

UCells == Cells(MaxH, MaxW)

\* A GeoTIFF: shape (h, w), the transform (the grid cell of its top-left
\* pixel is <<row0 + 1, col0 + 1>>), the band's dtype and band 1.
Raster(h, w, row0, col0, dtype, px) ==
  [kind |-> "raster", h |-> h, w |-> w, row0 |-> row0, col0 |-> col0,
   dtype |-> dtype, px |-> px]

\* The grid cell under pixel c of raster ras.
CellOf(ras, c) == <<ras.row0 + c[1], ras.col0 + c[2]>>

Empty == [kind |-> "empty"]

Sidecar == [kind |-> "sidecar"]

Vector(lead, geoms) == [kind |-> "vector", lead |-> lead, geoms |-> geoms]

Geom(touch, center) == [touch |-> touch, center |-> center]


\* ------------------------------------------------ perform_buffer_analysis
Abs(x) == IF x < 0 THEN -x ELSE x

\* The cells within the buffer distance of a touched cell: the cell itself
\* and the four cells that share an edge with it (the model's pixel size is
\* such that 0.0038 reaches the edge neighbours and not the diagonal ones).
Near(cells) ==
  {c \in UCells : \E d \in cells : Abs(c[1] - d[1]) + Abs(c[2] - d[2]) <= 1}

\* geometry.buffer(0.0038): the buffered geometry touches the cells near the
\* original one and covers the centre of every cell the original touched.
BufferGeom(g) == Geom(Near(g.touch), g.touch)

\* gdf["geometry"] = gdf["geometry"].buffer(0.0038), feature by feature.
BufferVector(vec) ==
  Vector(vec.lead, [i \in 1..Len(vec.geoms) |-> BufferGeom(vec.geoms[i])])

\* ------------------------------------------------------- rasterize_vector
\* vector["id"] = range(0, len(vector)) zipped with vector.geometry: the
\* (geometry, value) pairs of the features that lie on the grid; the `lead`
\* features before them take the ids 0..lead-1 and touch no cell.
GeomValue(vec) ==
  [i \in 1..Len(vec.geoms) |-> [geom |-> vec.geoms[i], value |-> vec.lead + i - 1]]

\* all_touched=False: a shape burns the cells whose centre it covers.
BurntCenter(geom) == geom.center

\* all_touched=True: a shape burns every cell it touches.
Burnt(geom) == geom.touch

RECURSIVE Burn(_, _, _, _)
\* features.rasterize with merge_alg=replace: the shapes are burned in
\* order from shape i on, each over what was burned before it.
Burn(grid, ref, shapes, i) ==
  IF i > Len(shapes) THEN grid
  ELSE Burn([c \in DOMAIN grid |->
               IF CellOf(ref, c) \in Burnt(shapes[i].geom)
               THEN shapes[i].value ELSE grid[c]],
            ref, shapes, i + 1)

\* features.rasterize(geom_value, out_shape=raster.shape, fill=-99999, ...)
Rasterized(vec, ref) ==
  Burn([c \in Cells(ref.h, ref.w) |-> fill], ref, GeomValue(vec), 1)

\* No cast: the band keeps the float32 cell.
CastNone(v, mode) == v

\* The cast of a float32 cell to the uint8 band. Outside 0..255 the C cast
\* is undefined: the build either keeps the low eight bits of the integer
\* ("wrap") or saturates ("saturate").
Cast(v, mode) ==
  IF 0 <= v /\ v <= Uint8Max THEN v
  ELSE IF mode = "wrap" THEN v % (Uint8Max + 1)
  ELSE IF v < 0 THEN 0 ELSE Uint8Max

\* dst.write(rasterized, indexes=1) into the dtype=uint8 dataset that takes
\* the reference raster's crs, transform, width and height.
RasterizedFile(vec, ref, mode) ==
  LET grid == Rasterized(vec, ref)
  IN  Raster(ref.h, ref.w, ref.row0, ref.col0, "uint8",
             [c \in DOMAIN grid |-> Cast(grid[c], mode)])

\* features.rasterize raises ValueError when it is given no shape.
CanRasterize(vec, ref) ==
  vec.kind = "vector" /\ ref.kind = "raster" /\ vec.lead + Len(vec.geoms) > 0

\* ------------------------------------------------------------ mask_raster
SetMin(S) == CHOOSE x \in S : \A y \in S : x <= y

SetMax(S) == CHOOSE x \in S : \A y \in S : x >= y

\* shapes = [feature["geometry"] for feature in shapefile]
Shapes(vec) == {vec.geoms[i] : i \in 1..Len(vec.geoms)}

\* The grid cells of the raster that lie in the bounding envelope of the
\* shapes (crop=True crops to this window; it is never larger than src).
CropCells(ras, shapes) ==
  LET touched == UNION {g.touch : g \in shapes}
      rows == {c[1] : c \in touched}
      cols == {c[2] : c \in touched}
  IN  IF touched = {} THEN {}
      ELSE {c \in {CellOf(ras, p) : p \in Cells(ras.h, ras.w)} :
              /\ SetMin(rows) <= c[1] /\ c[1] <= SetMax(rows)
              /\ SetMin(cols) <= c[2] /\ c[2] <= SetMax(cols)}

\* mask.mask raises ValueError when the shapes do not overlap the raster.
CanMask(ras, vec) ==
  ras.kind = "raster" /\ vec.kind = "vector" /\ CropCells(ras, Shapes(vec)) # {}

\* src.nodata is unset in every raster the pipeline writes: mask fills with 0.
MaskNodata == 0

\* mask.mask(src, shapes, crop=True, filled=True) and the updated metadata:
\* a pixel keeps its value when a shape covers its centre and is nodata
\* otherwise; height, width and transform are those of the crop window.
MaskedFile(ras, vec) ==
  LET win == CropCells(ras, Shapes(vec))
      r0 == SetMin({c[1] : c \in win}) - 1
      c0 == SetMin({c[2] : c \in win}) - 1
      h == SetMax({c[1] : c \in win}) - r0
      w == SetMax({c[2] : c \in win}) - c0
      inside == UNION {g.center : g \in Shapes(vec)}
  IN  Raster(h, w, r0, c0, ras.dtype,
             [p \in Cells(h, w) |->
                IF <<r0 + p[1], c0 + p[2]>> \in inside
                THEN ras.px[<<r0 + p[1] - ras.row0, c0 + p[2] - ras.col0>>]
                ELSE MaskNodata])

\* ----------------------------------------------- perform_weighted_overlay
Max(a, b) == IF a >= b THEN a ELSE b

Min(a, b) == IF a <= b THEN a ELSE b

\* numpy broadcasting of two 2-D operands: each dimension equal, or one of
\* them 1.
Broadcastable(a, b) ==
  /\ a.h = b.h \/ a.h = 1 \/ b.h = 1
  /\ a.w = b.w \/ a.w = 1 \/ b.w = 1

\* The element of operand a that pairs with cell c of the broadcast result.
At(a, c) == a.px[<<IF a.h = 1 THEN 1 ELSE c[1], IF a.w = 1 THEN 1 ELSE c[2]>>]

\* raster * weight with the weight dropped.
ScaledUnweighted(ras, weight) ==
  [kind |-> "array", h |-> ras.h, w |-> ras.w,
   px |-> [c \in Cells(ras.h, ras.w) |-> ras.px[c]]]

\* raster * weight
Scaled(ras, weight) ==
  [kind |-> "array", h |-> ras.h, w |-> ras.w,
   px |-> [c \in Cells(ras.h, ras.w) |-> ras.px[c] * weight]]

\* acc + term, elementwise; "error" when the shapes do not broadcast.
Plus(acc, term) ==
  IF acc.kind = "error" \/ ~Broadcastable(acc, term) THEN [kind |-> "error"]
  ELSE LET h == Max(acc.h, term.h)
           w == Max(acc.w, term.w)
       IN  [kind |-> "array", h |-> h, w |-> w,
            px |-> [c \in Cells(h, w) |-> At(acc, c) + At(term, c)]]

\* sum() starts from the scalar 0, which broadcasts like a 1 x 1 array.
Zero == [kind |-> "array", h |-> 1, w |-> 1, px |-> [c \in Cells(1, 1) |-> 0]]

RECURSIVE WeightedSum(_, _, _, _)
\* sum(raster * weight for raster, weight in zip(raster_arrays, weights)):
\* the pairs from k on added to acc, left to right; zip stops at the
\* shorter list.
WeightedSum(acc, raster_arrays, weights, k) ==
  IF k > Min(Len(raster_arrays), Len(weights)) THEN acc
  ELSE WeightedSum(Plus(acc, Scaled(raster_arrays[k], weights[k])),
                   raster_arrays, weights, k + 1)

\* The result of sum(...): an error for unbroadcastable shapes, and for no
\* pair at all the int 0, which has no shape to write.
Overlay(raster_arrays, weights) ==
  IF Min(Len(raster_arrays), Len(weights)) = 0 THEN [kind |-> "error"]
  ELSE WeightedSum(Zero, raster_arrays, weights, 1)

\* The file written to the output path: the overlay's shape and dtype
\* (uint8 times a float weight is float64) with the crs and transform of
\* the first raster opened.
OverlayFile(raster_arrays, weights) ==
  LET sum == Overlay(raster_arrays, weights)
      meta == raster_arrays[1]
  IN  Raster(sum.h, sum.w, meta.row0, meta.col0, "float64", sum.px)


\* ------------------------------------------------------------------ state
VARIABLES
  fs,      \* the staging directory /tmp: file name -> [data, writer]
  store,   \* the bucket: key -> [data, writer]
  pc,      \* each request's position in its handler
  inp,     \* each request's inputs, the worker serving it and its id
  loc,     \* each request's local variables
  resp,    \* each request's response
  hist,    \* history: the stages a request attempted, where it failed,
           \* and whether it read a staging file another request wrote
  loop,    \* per worker process, the request running on its event loop
  build,   \* what the build's out-of-range float -> uint8 cast does
  putlog,  \* history: the puts into the bucket, in order
  overlaid \* history: the requests whose overlay was written, in order

vars == <<fs, store, pc, inp, loc, resp, hist, loop, build, putlog, overlaid>>

Req == 1..MaxRequests

Path(stem, suffix) == [stem |-> stem, suffix |-> suffix]

\* file_path.name
Name(p) == p.stem \o p.suffix

NoFiles == [n \in {} |-> Empty]

\* A write of a whole file (or object) by request id.
Write(f, name, data, id) ==
  [n \in DOMAIN f \cup {name} |->
     IF n = name THEN [data |-> data, writer |-> id] ELSE f[n]]

Missing == [kind |-> "missing"]

Corrupt == [kind |-> "corrupt"]

Read(f, name) == IF name \in DOMAIN f THEN f[name].data ELSE Missing

IdlePc == [at |-> "idle", i |-> 0]

At_(at, i) == [at |-> at, i |-> i]

NoInp == [id |-> 0, worker |-> 0, names |-> <<>>, data |-> <<>>, weights |-> <<>>]

NoLoc ==
  [buffered |-> <<>>, rasterized |-> <<>>, masked |-> <<>>, responses |-> <<>>,
   grid |-> <<>>, raster_urls |-> <<>>, rasters |-> <<>>, put |-> <<>>]

NoResp == [status |-> 0, detail |-> "", content |-> <<>>]

NoHist == [tried |-> <<>>, failedAt |-> "", foreign |-> FALSE, last |-> 0]

\* ----------------------------------------------------------- scheduling
\* A coroutine runs on its worker's event loop until it awaits something
\* that suspends it; requests of different worker processes interleave
\* freely. Request r may take a step when its loop is free or runs r.
CanRun(r) == loop[inp[r].worker] \in {0, r}

\* r keeps the loop: the code between this step and the next has no
\* suspension point.
Hold(r) == loop' = [loop EXCEPT ![inp[r].worker] = r]

\* r gives the loop up: it awaits (UploadFile.read) or its handler returns.
Yield(r) == loop' = [loop EXCEPT ![inp[r].worker] = 0]

\* ------------------------------------------------------- request inputs
\* The uploads of upload_file in the order the handler saves them.
Roles == <<"dang", "river", "road", "settlement", "rasterfile">>

Zeros(h, w) == [c \in Cells(h, w) |-> 0]

Pt(c) == Geom({c}, {c})

\* The filenames the overlay's keys are derived from, and another set that
\* shares only the AOI's and the reference raster's filenames with it.
Canonical ==
  <<Path("dang", ".shp"), Path("river_dang", ".shp"), Path("road_dang", ".shp"),
    Path("settlement_area_dang", ".shp"), Path("ref", ".tif")>>

Renamed ==
  <<Path("dang", ".shp"), Path("river", ".shp"), Path("road", ".shp"),
    Path("settlement", ".shp"), Path("ref", ".tif")>>

Namings == {Canonical, Renamed}

\* AOI over the whole 2 x 2 grid; a river in one corner, whose buffer leaves
\* the opposite corner free; two roads whose buffers overlap; settlements
\* with the ids 255 and 256.
SceneA ==
  <<Vector(0, <<Geom(Cells(2, 2), Cells(2, 2))>>),
    Vector(0, <<Pt(<<1, 1>>)>>),
    Vector(0, <<Pt(<<1, 1>>), Pt(<<1, 2>>)>>),
    Vector(255, <<Pt(<<2, 2>>), Pt(<<2, 1>>)>>),
    Raster(2, 2, 0, 0, "uint8", Zeros(2, 2))>>

\* AOI in the top row of a 2 x 2 grid, covering the centre of its right
\* cell only: the crop window is 1 x 2.
SceneB ==
  <<Vector(0, <<Geom({<<1, 1>>, <<1, 2>>}, {<<1, 2>>})>>),
    Vector(1, <<Pt(<<1, 1>>)>>),
    Vector(0, <<Pt(<<2, 2>>)>>),
    Vector(0, <<Pt(<<2, 1>>), Pt(<<1, 1>>)>>),
    Raster(2, 2, 0, 0, "uint8", Zeros(2, 2))>>

Scenes == {SceneA, SceneB}

WeightInputs == {<<1, 1, 1>>, <<1, 2, 3>>}

Builds == {"wrap", "saturate"}


\* Requests arrive in the order of their ids. A request is served by a
\* worker that has served one before or by the first of those that have not
\* (the workers are interchangeable).
FreeSlot(r) == pc[r].at = "idle" /\ \A q \in 1..(r - 1) : pc[q].at # "idle"

Serving == {inp[q].worker : q \in {q \in Req : pc[q].at # "idle"}}

WorkersFor ==
  Serving \cup (IF Serving = 1..MaxWorkers THEN {}
                ELSE {SetMin((1..MaxWorkers) \ Serving)})

\* ------------------------------------------------------------ upload_file
\* A request arrives: its uploads, and the worker process that serves it.
StartUpload(r, workers) ==
  /\ FreeSlot(r)
  /\ \E names \in Namings, data \in Scenes, w \in workers :
       inp' = [inp EXCEPT ![r] = [id |-> r, worker |-> w, names |-> names,
                                  data |-> data, weights |-> <<>>]]
  /\ pc' = [pc EXCEPT ![r] = At_("save_open", 1)]
  /\ loc' = [loc EXCEPT ![r] = NoLoc]
  /\ resp' = [resp EXCEPT ![r] = NoResp]
  /\ hist' = [hist EXCEPT ![r] = NoHist]
  /\ UNCHANGED <<fs, store, loop, build, putlog, overlaid>>

\* A staging path of the request's own.
TempPathOwn(r, i) ==
  Path(ToString(r) \o "_" \o inp[r].names[i].stem, inp[r].names[i].suffix)

\* Path("/tmp") / upload.filename: where request r stages its i-th upload.
TempPath(r, i) == inp[r].names[i]

\* temp_path.open("wb") of the i-th upload truncates the file; the handler
\* then awaits the upload's read().
SaveOpen(r) ==
  /\ pc[r].at = "save_open"
  /\ CanRun(r)
  /\ fs' = Write(fs, Name(TempPath(r, pc[r].i)), Empty, inp[r].id)
  /\ pc' = [pc EXCEPT ![r] = At_("save_write", pc[r].i)]
  /\ Yield(r)
  /\ UNCHANGED <<store, inp, loc, resp, hist, build, putlog, overlaid>>

\* The length of a file's bytes, in records (a shapefile) or pixels.
Size(data) ==
  CASE data.kind = "vector" -> data.lead + Len(data.geoms)
    [] data.kind = "raster" -> data.h * data.w
    [] OTHER -> 0

\* Bytes written at offset 0 of a file that holds `old`: the new bytes,
\* followed by what of the old bytes lies beyond them.
Overwritten(old, data) ==
  IF old = data \/ Size(old) <= Size(data) THEN data ELSE Corrupt

\* buffer.write(...) and the close of the file: the bytes go to offset 0 of
\* the file as it is now, which is empty unless another request wrote it
\* after this request's open.
SaveWrite(r) ==
  LET i == pc[r].i
      name == Name(TempPath(r, i))
      data == inp[r].data[i]
  IN  /\ pc[r].at = "save_write"
      /\ CanRun(r)
      /\ fs' = Write(fs, name, Overwritten(Read(fs, name), data), inp[r].id)
      /\ pc' = [pc EXCEPT ![r] = IF i < Len(Roles) THEN At_("save_open", i + 1)
                                 ELSE At_("buffer", 1)]
      /\ Hold(r)
      /\ UNCHANGED <<store, inp, loc, resp, hist, build, putlog, overlaid>>

\* The details with the mask block's copied from the rasterize block.
DetailCopied(at) ==
  CASE at = "buffer" -> "Buffer analysis failed"
    [] at \in {"rasterize", "mask"} -> "Rasterization failed"
    [] at \in {"upload", "upload_result"} -> "File upload to Minio failed"
    [] at = "presign" -> "Failed to generate presigned URLs"
    [] at = "overlay" -> "Weighted overlay analysis failed"

\* The detail of the HTTPException each try block of the handlers raises:
\* the text before ": {str(e)}".
Detail(at) ==
  CASE at = "buffer" -> "Buffer analysis failed"
    [] at = "rasterize" -> "Rasterization failed"
    [] at = "mask" -> "Masking failed"
    [] at = "upload" -> "File upload to Minio failed"
    [] at = "presign" -> "Failed to generate presigned URLs"
    [] at = "overlay" -> "Weighted overlay analysis failed"
    [] at = "upload_result" -> "File upload to Minio failed"

\* Whether one of the files is there and was last written by another request.
Foreign(r, names) ==
  \E n \in names : n \in DOMAIN fs /\ fs[n].writer # inp[r].id

\* The history of request r after a stage that read the files `names`.
Hist(r, names, failed) ==
  [tried |-> Append(hist[r].tried, pc[r]),
   failedAt |-> IF failed THEN pc[r].at ELSE hist[r].failedAt,
   foreign |-> hist[r].foreign \/ Foreign(r, names),
   last |-> hist[r].last]

\* A failure response that reports the layers uploaded so far.
FailPartial(r, names) ==
  /\ pc' = [pc EXCEPT ![r] = At_("failed", 0)]
  /\ resp' = [resp EXCEPT ![r] = [status |-> 500, detail |-> Detail(pc[r].at),
                                  content |-> loc[r].responses]]
  /\ hist' = [hist EXCEPT ![r] = Hist(r, names, TRUE)]
  /\ Yield(r)

\* except Exception as e: raise HTTPException(status_code=500, detail=...):
\* the request ends with the failure response and nothing else is done.
Fail(r, names) ==
  /\ pc' = [pc EXCEPT ![r] = At_("failed", 0)]
  /\ resp' = [resp EXCEPT ![r] = [status |-> 500, detail |-> Detail(pc[r].at),
                                  content |-> <<>>]]
  /\ hist' = [hist EXCEPT ![r] = Hist(r, names, TRUE)]
  /\ Yield(r)

\* Each layer runs through the next stage as soon as it has left this one.
NextStagePerLayer(at, i, next) == At_(next, i)

\* The three layers run through each stage in turn, then the next stage.
NextStage(at, i, next) == IF i < 3 THEN At_(at, i + 1) ELSE At_(next, 1)

\* Output files with another infix.
BufferedFilesBuf(file_path) ==
  LET output_basename == file_path.stem \o "_buf"
  IN  <<Path(output_basename, ".shp"), Path(output_basename, ".shx"),
        Path(output_basename, ".dbf"), Path(output_basename, ".cpg"),
        Path(output_basename, ".prj")>>

\* output_files of perform_buffer_analysis
BufferedFiles(file_path) ==
  LET output_basename == file_path.stem \o "_buffered"
  IN  <<Path(output_basename, ".shp"), Path(output_basename, ".shx"),
        Path(output_basename, ".dbf"), Path(output_basename, ".cpg"),
        Path(output_basename, ".prj")>>

\* perform_buffer_analysis(temp_<layer>sh_path) for layer i: read the
\* shapefile, buffer it, write <stem>_buffered.shp and its companions.
\* Reading anything but a shapefile raises, and so may the environment.
Buffer(r) ==
  LET i == pc[r].i
      file_path == TempPath(r, i + 1)
      gdf == Read(fs, Name(file_path))
      output_files == BufferedFiles(file_path)
      written == {Name(output_files[k]) : k \in 1..Len(output_files)}
  IN  /\ pc[r].at = "buffer"
      /\ CanRun(r)
      /\ \/ /\ gdf.kind = "vector"
            /\ fs' = [n \in DOMAIN fs \cup written |->
                        IF n = Name(output_files[1])
                        THEN [data |-> BufferVector(gdf), writer |-> inp[r].id]
                        ELSE IF n \in written
                        THEN [data |-> Sidecar, writer |-> inp[r].id]
                        ELSE fs[n]]
            /\ loc' = [loc EXCEPT ![r].buffered = Append(@, output_files)]
            /\ pc' = [pc EXCEPT ![r] = NextStage("buffer", i, "rasterize")]
            /\ hist' = [hist EXCEPT ![r] = Hist(r, {Name(file_path)}, FALSE)]
            /\ Hold(r)
            /\ UNCHANGED resp
         \/ /\ Fail(r, {Name(file_path)})
            /\ UNCHANGED <<fs, loc>>
      /\ UNCHANGED <<store, inp, build, putlog, overlaid>>

\* next(p for p in file_paths if p.suffix == ".shp")
ShpOf(file_paths) ==
  file_paths[SetMin({k \in 1..Len(file_paths) : file_paths[k].suffix = ".shp"})]

\* rasterize_vector(buffered_<layer>, temp_rasterfile_path) for layer i:
\* burn the buffered features into a grid like the reference raster's and
\* write it, as uint8, to <stem>_rasterized.tif.
Rasterize(r) ==
  LET i == pc[r].i
      vector_file_path == ShpOf(loc[r].buffered[i])
      raster_file_path == TempPath(r, 5)
      vector == Read(fs, Name(vector_file_path))
      raster == Read(fs, Name(raster_file_path))
      output_raster_path == Path(vector_file_path.stem \o "_rasterized", ".tif")
      read == {Name(vector_file_path), Name(raster_file_path)}
  IN  /\ pc[r].at = "rasterize"
      /\ CanRun(r)
      /\ \/ /\ CanRasterize(vector, raster)
            /\ fs' = Write(fs, Name(output_raster_path),
                           RasterizedFile(vector, raster, build), inp[r].id)
            /\ loc' = [loc EXCEPT ![r].rasterized = Append(@, output_raster_path),
                                  ![r].grid = Append(@, Rasterized(vector, raster))]
            /\ pc' = [pc EXCEPT ![r] = NextStage("rasterize", i, "mask")]
            /\ hist' = [hist EXCEPT ![r] = Hist(r, read, FALSE)]
            /\ Hold(r)
            /\ UNCHANGED resp
         \/ /\ Fail(r, read)
            /\ UNCHANGED <<fs, loc>>
      /\ UNCHANGED <<store, inp, build, putlog, overlaid>>

\* mask_raster(rasterized_<layer>, temp_Dangsh_path) for layer i: crop the
\* raster to the AOI and write it to <stem>_masked.tif.
Mask(r) ==
  LET i == pc[r].i
      raster_file_path == loc[r].rasterized[i]
      shapefile_path == TempPath(r, 1)
      src == Read(fs, Name(raster_file_path))
      shapefile == Read(fs, Name(shapefile_path))
      output_masked_raster_path == Path(raster_file_path.stem \o "_masked", ".tif")
      read == {Name(raster_file_path), Name(shapefile_path)}
  IN  /\ pc[r].at = "mask"
      /\ CanRun(r)
      /\ \/ /\ CanMask(src, shapefile)
            /\ fs' = Write(fs, Name(output_masked_raster_path),
                           MaskedFile(src, shapefile), inp[r].id)
            /\ loc' = [loc EXCEPT ![r].masked = Append(@, output_masked_raster_path)]
            /\ pc' = [pc EXCEPT ![r] = NextStage("mask", i, "upload")]
            /\ hist' = [hist EXCEPT ![r] = Hist(r, read, FALSE)]
            /\ Hold(r)
            /\ UNCHANGED resp
         \/ /\ Fail(r, read)
            /\ UNCHANGED <<fs, loc>>
      /\ UNCHANGED <<store, inp, build, putlog, overlaid>>

\* file_name = f"mcda/{file_path.name}"
Key(file_path) == "mcda/" \o Name(file_path)

\* A put that leaves an object that is there as it is.
PutObjectOnce(key, data, id) ==
  IF key \in DOMAIN store THEN store ELSE Write(store, key, data, id)

\* client.put_object(bucket_name, file_name, data=file_data, ...): the
\* object under the key is replaced by the file's bytes.
PutObject(key, data, id) == Write(store, key, data, id)

\* The record of a put in the history.
Put(key, data, id) == [key |-> key, data |-> data, by |-> id]

\* client.presigned_get_object(bucket_name, key): an address of the key.
PresignedUrl(key) == [bucket |-> bucket_name, key |-> key]

\* One entry of upload_to_minio's responses.
Uploaded(file_path) ==
  [bucket_name |-> bucket_name, file_path |-> Key(file_path),
   presigned_url |-> PresignedUrl(Key(file_path))]

\* upload_to_minio([masked_<layer>]) for layer i: put the masked raster
\* under mcda/<name> and presign it. The store may fail the put, or the
\* presigning after the put is done. After the third layer the handler
\* returns the three responses.
Upload(r) ==
  LET i == pc[r].i
      file_path == loc[r].masked[i]
      file_data == Read(fs, Name(file_path))
      responses == Append(loc[r].responses, Uploaded(file_path))
  IN  /\ pc[r].at = "upload"
      /\ CanRun(r)
      /\ \/ /\ store' = PutObject(Key(file_path), file_data, inp[r].id)
            /\ putlog' = Append(putlog, Put(Key(file_path), file_data, inp[r].id))
            /\ loc' = [loc EXCEPT ![r].responses = responses,
                                  ![r].put = Append(@, file_data)]
            /\ hist' = [hist EXCEPT ![r] = Hist(r, {Name(file_path)}, FALSE)]
            /\ IF i < 3
               THEN /\ pc' = [pc EXCEPT ![r] = At_("upload", i + 1)]
                    /\ Hold(r)
                    /\ UNCHANGED resp
               ELSE /\ pc' = [pc EXCEPT ![r] = At_("done", 0)]
                    /\ resp' = [resp EXCEPT ![r] = [status |-> 200, detail |-> "",
                                                    content |-> responses]]
                    /\ Yield(r)
         \/ /\ store' = PutObject(Key(file_path), file_data, inp[r].id)
            /\ putlog' = Append(putlog, Put(Key(file_path), file_data, inp[r].id))
            /\ loc' = [loc EXCEPT ![r].put = Append(@, file_data)]
            /\ Fail(r, {Name(file_path)})
         \/ /\ Fail(r, {Name(file_path)})
            /\ UNCHANGED <<store, loc, putlog>>
      /\ UNCHANGED <<fs, inp, build, overlaid>>


\* ------------------------------------------------------- weighted_overlay
\* The keys the handler is written to read, in the order of its weights.
OverlayKeys ==
  <<"mcda/river_dang_buffered_rasterized_masked.tif",
    "mcda/road_dang_buffered_rasterized_masked.tif",
    "mcda/settlement_area_dang_buffered_rasterized_masked.tif">>

\* An output path of the request's own.
OutputPathOwn(r) == Path("result_weighted_overlay_" \o ToString(r), ".tif")

\* output_path = Path("/tmp/result_weighted_overlay.tif"): where request r's
\* call of perform_weighted_overlay writes its result.
OutputPath(r) == Path("result_weighted_overlay", ".tif")

\* A request arrives: its three weights, and the worker that serves it.
StartOverlay(r, workers) ==
  /\ FreeSlot(r)
  /\ \E weights \in WeightInputs, w \in workers :
       inp' = [inp EXCEPT ![r] = [id |-> r, worker |-> w, names |-> <<>>,
                                  data |-> <<>>, weights |-> weights]]
  /\ pc' = [pc EXCEPT ![r] = At_("presign", 1)]
  /\ loc' = [loc EXCEPT ![r] = NoLoc]
  /\ resp' = [resp EXCEPT ![r] = NoResp]
  /\ hist' = [hist EXCEPT ![r] = NoHist]
  /\ UNCHANGED <<fs, store, loop, build, putlog, overlaid>>

\* mcda.get_presigned_url(key) for the i-th key; presigning does not look
\* the key up, and raises only when the client fails.
Presign(r) ==
  LET i == pc[r].i
  IN  /\ pc[r].at = "presign"
      /\ CanRun(r)
      /\ \/ /\ loc' = [loc EXCEPT ![r].raster_urls = Append(@, PresignedUrl(OverlayKeys[i]))]
            /\ pc' = [pc EXCEPT ![r] = NextStage("presign", i, "overlay")]
            /\ hist' = [hist EXCEPT ![r] = Hist(r, {}, FALSE)]
            /\ Hold(r)
            /\ UNCHANGED resp
         \/ /\ Fail(r, {})
            /\ UNCHANGED loc
      /\ UNCHANGED <<fs, store, inp, build, putlog, overlaid>>

\* perform_weighted_overlay, first loop: get_raster_from_presigned_url(url)
\* for the i-th url. The GET answers with the object now under the key; a
\* key with no object is a 404, which raises.
OverlayFetch(r) ==
  LET i == pc[r].i
      url == loc[r].raster_urls[i]
  IN  /\ pc[r].at = "overlay"
      /\ i <= Len(loc[r].raster_urls)
      /\ CanRun(r)
      /\ \/ /\ url.key \in DOMAIN store
            /\ loc' = [loc EXCEPT ![r].rasters = Append(@, store[url.key].data)]
            /\ pc' = [pc EXCEPT ![r] = At_("overlay", i + 1)]
            /\ hist' = [hist EXCEPT ![r] = Hist(r, {}, FALSE)]
            /\ Hold(r)
            /\ UNCHANGED resp
         \/ /\ Fail(r, {})
            /\ UNCHANGED loc
      /\ UNCHANGED <<fs, store, inp, build, putlog, overlaid>>

\* perform_weighted_overlay, the rest: open every raster and read band 1,
\* sum raster * weight, write the sum to the output path. Bytes that are no
\* raster, shapes that do not broadcast and an empty list raise.
OverlayCompute(r) ==
  LET raster_arrays == loc[r].rasters
      weights == inp[r].weights
  IN  /\ pc[r].at = "overlay"
      /\ pc[r].i > Len(loc[r].raster_urls)
      /\ CanRun(r)
      /\ \/ /\ \A k \in 1..Len(raster_arrays) : raster_arrays[k].kind = "raster"
            /\ Overlay(raster_arrays, weights).kind # "error"
            /\ fs' = Write(fs, Name(OutputPath(r)), OverlayFile(raster_arrays, weights),
                           inp[r].id)
            /\ overlaid' = Append(overlaid, inp[r].id)
            /\ pc' = [pc EXCEPT ![r] = At_("upload_result", 1)]
            /\ hist' = [hist EXCEPT ![r] = Hist(r, {}, FALSE)]
            /\ Hold(r)
            /\ UNCHANGED resp
         \/ /\ Fail(r, {})
            /\ UNCHANGED <<fs, overlaid>>
      /\ UNCHANGED <<store, inp, loc, build, putlog>>

\* upload_to_minio([overlay_result_path]): put what the output path holds
\* now under mcda/result_weighted_overlay.tif, presign it and return it.
OverlayUpload(r) ==
  LET overlay_result_path == OutputPath(r)
      file_data == Read(fs, Name(overlay_result_path))
      put == Put(Key(overlay_result_path), file_data, inp[r].id)
  IN  /\ pc[r].at = "upload_result"
      /\ CanRun(r)
      /\ \/ /\ store' = PutObject(put.key, file_data, inp[r].id)
            /\ putlog' = Append(putlog, put)
            /\ loc' = [loc EXCEPT ![r].responses = <<Uploaded(overlay_result_path)>>,
                                  ![r].put = <<file_data>>]
            /\ pc' = [pc EXCEPT ![r] = At_("done", 0)]
            /\ resp' = [resp EXCEPT ![r] = [status |-> 200, detail |-> "",
                                            content |-> <<Uploaded(overlay_result_path)>>]]
            /\ hist' = [hist EXCEPT ![r] =
                          [Hist(r, {Name(overlay_result_path)}, FALSE)
                             EXCEPT !.last = overlaid[Len(overlaid)]]]
            /\ Yield(r)
         \/ /\ store' = PutObject(put.key, file_data, inp[r].id)
            /\ putlog' = Append(putlog, put)
            /\ Fail(r, {Name(overlay_result_path)})
            /\ UNCHANGED loc
         \/ /\ Fail(r, {Name(overlay_result_path)})
            /\ UNCHANGED <<store, loc, putlog>>
      /\ UNCHANGED <<fs, inp, build, overlaid>>

\* ---------------------------------------------------------- specification
\* What an upload of the scene under the canonical filenames leaves in the
\* bucket: per layer, the buffered, rasterized and masked raster.
Artifact(scene, i, mode) ==
  MaskedFile(RasterizedFile(BufferVector(scene[i + 1]), scene[5], mode), scene[1])

Stored(scene, mode) ==
  [k \in {OverlayKeys[i] : i \in 1..3} |->
     [data |-> Artifact(scene, CHOOSE i \in 1..3 : OverlayKeys[i] = k, mode),
      writer |-> 0]]

\* The puts of that upload.
StoredLog(scene, mode) ==
  [i \in 1..3 |-> Put(OverlayKeys[i], Artifact(scene, i, mode), 0)]

\* The process has started: nothing is staged yet, and the bucket, which
\* outlives the process, is empty or holds the artifacts of an upload that
\* an earlier run served.
Init ==
  /\ build \in Builds
  /\ fs = NoFiles
  /\ \/ store = NoFiles /\ putlog = <<>>
     \/ store = Stored(SceneA, build) /\ putlog = StoredLog(SceneA, build)
  /\ overlaid = <<>>
  /\ pc = [r \in Req |-> IdlePc]
  /\ inp = [r \in Req |-> NoInp]
  /\ loc = [r \in Req |-> NoLoc]
  /\ resp = [r \in Req |-> NoResp]
  /\ hist = [r \in Req |-> NoHist]
  /\ loop = [w \in 1..MaxWorkers |-> 0]

\* A step of a request. Upload requests are all served by worker 1, whose
\* event loop interleaves them at the awaits of the save phase; a
\* weighted-overlay request is served by any worker.
Next ==
  \E r \in Req :
    \/ StartUpload(r, {1})
    \/ SaveOpen(r)
    \/ SaveWrite(r)
    \/ Buffer(r)
    \/ Rasterize(r)
    \/ Mask(r)
    \/ Upload(r)
    \/ StartOverlay(r, WorkersFor)
    \/ Presign(r)
    \/ OverlayFetch(r)
    \/ OverlayCompute(r)
    \/ OverlayUpload(r)

Spec == Init /\ [][Next]_vars

\* -------------------------------------------- perform_weighted_overlay alone
\* The calls of perform_weighted_overlay that are drawn: up to MaxRasters
\* rasters of the shapes 1 x 1 and 1 x 2 with the pixel values 0 and 10,
\* and as many weights.
OverlayShapes == {<<1, 1>>, <<1, 2>>}

PixelValues == {0, 10}

WeightValues == {1, 2, 3}

OverlayRasters ==
  UNION {{Raster(s[1], s[2], 0, 0, "uint8", px) :
            px \in [Cells(s[1], s[2]) -> PixelValues]} : s \in OverlayShapes}

DrawnKey(k) == "mcda/raster_" \o ToString(k) \o ".tif"

\* Request 1 has entered perform_weighted_overlay(raster_urls, weights) with
\* n urls, whose keys hold the drawn rasters.
InitOverlay ==
  /\ build = "wrap"
  /\ fs = NoFiles
  /\ overlaid = <<>>
  /\ \E n \in 1..MaxRasters :
       \E rasters \in [1..n -> OverlayRasters], weights \in [1..n -> WeightValues] :
         /\ store = [key \in {DrawnKey(k) : k \in 1..n} |->
                       [data |-> rasters[CHOOSE k \in 1..n : DrawnKey(k) = key],
                        writer |-> 0]]
         /\ putlog = [k \in 1..n |-> Put(DrawnKey(k), rasters[k], 0)]
         /\ inp = [r \in Req |->
                     IF r = 1 THEN [id |-> 1, worker |-> 1, names |-> <<>>,
                                    data |-> <<>>, weights |-> weights]
                     ELSE NoInp]
         /\ loc = [r \in Req |->
                     IF r = 1
                     THEN [NoLoc EXCEPT !.raster_urls =
                             [k \in 1..n |-> PresignedUrl(DrawnKey(k))]]
                     ELSE NoLoc]
  /\ pc = [r \in Req |-> IF r = 1 THEN At_("overlay", 1) ELSE IdlePc]
  /\ resp = [r \in Req |-> NoResp]
  /\ hist = [r \in Req |-> NoHist]
  /\ loop = [w \in 1..MaxWorkers |-> IF w = 1 THEN 1 ELSE 0]

NextOverlay == \E r \in Req : OverlayFetch(r) \/ OverlayCompute(r)

SpecOverlay == InitOverlay /\ [][NextOverlay]_vars

\* ------------------------------------------------- rasterize_vector alone
\* The vector files that are drawn: up to MaxGeoms features on the grid,
\* each a thin line along part of a row (it covers no cell centre) or a
\* polygon over the whole grid, after 0 or 255 features off the grid.
Segments ==
  {{<<i, j>> : j \in a..b} : i \in 1..MaxH, a \in 1..MaxW, b \in 1..MaxW} \ {{}}

DrawnGeoms == {Geom(t, {}) : t \in Segments} \cup {Geom(UCells, UCells)}

Leads == {0, 255}

DrawnVectors ==
  {Vector(lead, geoms) :
     lead \in Leads, geoms \in UNION {[1..n -> DrawnGeoms] : n \in 0..MaxGeoms}}

RefShapes == {<<1, 1>>, <<MaxH, MaxW>>}

\* Request 1 has buffered its three layers: the buffered river layer and
\* the reference raster's shape are drawn.
InitRasterize ==
  /\ build \in Builds
  /\ store = NoFiles
  /\ putlog = <<>>
  /\ overlaid = <<>>
  /\ \E vec \in DrawnVectors, s \in RefShapes :
       fs = [n \in {Name(Canonical[1]), Name(Canonical[5])}
                     \cup {Name(ShpOf(BufferedFiles(Canonical[i + 1]))) : i \in 1..3} |->
               [data |-> IF n = Name(Canonical[1]) THEN SceneA[1]
                         ELSE IF n = Name(Canonical[5])
                         THEN Raster(s[1], s[2], 0, 0, "uint8", Zeros(s[1], s[2]))
                         ELSE IF n = Name(ShpOf(BufferedFiles(Canonical[2]))) THEN vec
                         ELSE IF n = Name(ShpOf(BufferedFiles(Canonical[3])))
                         THEN BufferVector(SceneA[3])
                         ELSE BufferVector(SceneA[4]),
                writer |-> 1]]
  /\ inp = [r \in Req |->
              IF r = 1 THEN [id |-> 1, worker |-> 1, names |-> Canonical,
                             data |-> SceneA, weights |-> <<>>]
              ELSE NoInp]
  /\ loc = [r \in Req |->
              IF r = 1
              THEN [NoLoc EXCEPT !.buffered =
                      [i \in 1..3 |-> BufferedFiles(Canonical[i + 1])]]
              ELSE NoLoc]
  /\ pc = [r \in Req |-> IF r = 1 THEN At_("rasterize", 1) ELSE IdlePc]
  /\ resp = [r \in Req |-> NoResp]
  /\ hist = [r \in Req |-> NoHist]
  /\ loop = [w \in 1..MaxWorkers |-> IF w = 1 THEN 1 ELSE 0]

NextRasterize == \E r \in Req : Rasterize(r)

SpecRasterize == InitRasterize /\ [][NextRasterize]_vars

\* ------------------------------------------------------------ properties
RECURSIVE WeightedPixel(_, _, _, _)
\* grid_1[c] * weight_1 + ... + grid_n[c] * weight_n, where a grid of one
\* row or one column stands for as many as the others have.
WeightedPixel(grids, weights, c, n) ==
  IF n = 0 THEN 0
  ELSE WeightedPixel(grids, weights, c, n - 1)
         + grids[n].px[<<Min(c[1], grids[n].h), Min(c[2], grids[n].w)>>] * weights[n]

EqualShape(grids) ==
  \A k \in 1..Len(grids) : grids[k].h = grids[1].h /\ grids[k].w = grids[1].w

\* C1: when perform_weighted_overlay has returned for N rasters of one
\* shape and N weights, the raster at its output path has that shape and
\* every pixel of it is the sum over k of grid_k's pixel times weight_k.
C1_WeightedSum ==
  \A r \in Req :
    pc[r].at = "upload_result" /\ EqualShape(loc[r].rasters) =>
      LET grids == loc[r].rasters
          out == Read(fs, "result_weighted_overlay.tif")
      IN  /\ out.kind = "raster"
          /\ out.h = grids[1].h /\ out.w = grids[1].w
          /\ \A c \in Cells(out.h, out.w) :
               out.px[c] = WeightedPixel(grids, inp[r].weights, c, Len(grids))

\* Three 1 x 2 rasters with the weights 1, 2 and 3: one pixel sums to
\* 10 * 1 + 0 * 2 + 10 * 3 and the other, all zeros, to 0.
C1_Witness ==
  \E r \in Req :
    /\ pc[r].at = "upload_result"
    /\ inp[r].weights = <<1, 2, 3>>
    /\ Len(loc[r].rasters) = 3
    /\ EqualShape(loc[r].rasters) /\ loc[r].rasters[1].w = 2
    /\ loc[r].rasters[2].px[<<1, 1>>] = 0
    /\ Read(fs, "result_weighted_overlay.tif").px = (<<1, 1>> :> 40) @@ (<<1, 2>> :> 0)

\* The features of layer k of request r that touch cell c of the grid, by
\* their place in the buffered file rasterize_vector read.
Touching(vec, c) == {p \in 1..Len(vec.geoms) : c \in vec.geoms[p].touch}

\* The buffered vector file and the reference raster that the k-th
\* rasterize_vector call of request r read.
VectorOf(r, k) == Read(fs, Name(ShpOf(loc[r].buffered[k])))

ReferenceOf(r) == Read(fs, Name(inp[r].names[5]))

\* C7 as stated: the features take the ids 0..n-1 in file order, every cell
\* a geometry touches holds that geometry's id in the computed grid, and a
\* cell no geometry touches holds -99999.
C7_EveryTouchingId ==
  \A r \in Req : \A k \in 1..Len(loc[r].grid) :
    LET vec == VectorOf(r, k)
        grid == loc[r].grid[k]
    IN  \A c \in DOMAIN grid :
          /\ \A p \in Touching(vec, c) : grid[c] = vec.lead + p - 1
          /\ Touching(vec, c) = {} => grid[c] = -99999

\* C7, amended: the features take the ids 0..n-1 in file order; a cell that
\* geometries touch (whether or not one covers its centre) holds the id of
\* the last of them in file order, and a cell no geometry touches holds
\* -99999.
C7_LastTouchingId ==
  \A r \in Req : \A k \in 1..Len(loc[r].grid) :
    LET vec == VectorOf(r, k)
        ref == ReferenceOf(r)
        grid == loc[r].grid[k]
    IN  /\ DOMAIN grid = Cells(ref.h, ref.w)
        /\ \A c \in DOMAIN grid :
             grid[c] = IF Touching(vec, c) = {} THEN -99999
                       ELSE vec.lead + SetMax(Touching(vec, c)) - 1

\* A grid in which one cell is touched by two geometries, neither covering
\* its centre, and holds the second one's id, next to an untouched cell.
C7_Witness ==
  \E r \in Req : \E k \in 1..Len(loc[r].grid) :
    LET vec == VectorOf(r, k)
        grid == loc[r].grid[k]
    IN  /\ vec.lead = 0
        /\ \E c \in DOMAIN grid :
             /\ Touching(vec, c) = {1, 2}
             /\ \A p \in {1, 2} : c \notin vec.geoms[p].center
             /\ grid[c] = 1
        /\ \E c \in DOMAIN grid : Touching(vec, c) = {} /\ grid[c] = -99999

\* C10: rasterize_vector stores its grid as a uint8 band: a cell whose
\* computed value is in 0..255 is stored as it is, and a cell whose computed
\* value is an id above 255 or the fill -99999 is stored as another value,
\* one in 0..255, which is what a cell with that id stores.
C10_Narrowed ==
  \A r \in Req : \A k \in 1..Len(loc[r].grid) :
    LET grid == loc[r].grid[k]
        file == Read(fs, Name(loc[r].rasterized[k]))
    IN  /\ file.kind = "raster" /\ file.dtype = "uint8"
        /\ DOMAIN file.px = DOMAIN grid
        /\ \A c \in DOMAIN grid :
             /\ file.px[c] \in 0..255
             /\ grid[c] \in 0..255 => file.px[c] = grid[c]
             /\ grid[c] \notin 0..255 => file.px[c] # grid[c]

\* A stored raster in which a cell with the id 256 and a cell with the fill
\* hold values that cells with ids in 0..255 hold too.
C10_Witness ==
  \E r \in Req : \E k \in 1..Len(loc[r].grid) :
    LET grid == loc[r].grid[k]
        file == Read(fs, Name(loc[r].rasterized[k]))
    IN  /\ \E c \in DOMAIN grid : grid[c] = 256 /\ file.px[c] \in {0, 255}
        /\ \E c \in DOMAIN grid : grid[c] = -99999 /\ file.px[c] \in {0, 97}

\* The last put of the history under the key.
LastPut(log, key) ==
  log[SetMax({k \in 1..Len(log) : log[k].key = key})]

\* C2: whenever a request fetches the raster behind a presigned url, some
\* put to the url's key has happened and the bytes fetched are those of the
\* most recent put to that key, whatever was put there before.
C2_RoundTrip ==
  [][\A r \in Req :
       Len(loc'[r].rasters) = Len(loc[r].rasters) + 1 =>
         LET i == Len(loc'[r].rasters)
             url == loc[r].raster_urls[i]
         IN  /\ \E k \in 1..Len(putlog) : putlog[k].key = url.key
             /\ loc'[r].rasters[i] = LastPut(putlog, url.key).data]_vars

\* A fetch that returned the second of two different contents put under
\* its key.
C2_Witness ==
  \E r \in Req :
    LET key == "mcda/river_dang_buffered_rasterized_masked.tif"
        puts == {k \in 1..Len(putlog) : putlog[k].key = key}
    IN  /\ Len(loc[r].rasters) >= 1
        /\ Cardinality(puts) = 2
        /\ loc[r].rasters[1] = putlog[SetMax(puts)].data
        /\ loc[r].rasters[1] # putlog[SetMin(puts)].data

\* The key under which an upload request stores the layer uploaded as
\* <stem>.shp.
ArtifactKey(stem) == "mcda/" \o stem \o "_buffered_rasterized_masked.tif"

\* C3: an upload request that failed in a stage of a layer has answered with
\* a failure that carries no layer's result, and every object it had put
\* for a layer before it failed is still in the bucket, with the bytes the
\* request put unless a later put of another request replaced them.
C3_AllOrNothing ==
  \A r \in Req :
    inp[r].names # <<>> /\ pc[r].at = "failed" =>
      /\ resp[r].status = 500
      /\ resp[r].content = <<>>
      /\ \A j \in 1..Len(loc[r].put) :
           LET key == ArtifactKey(inp[r].names[j + 1].stem)
           IN  /\ key \in DOMAIN store
               /\ store[key].writer = inp[r].id => store[key].data = loc[r].put[j]

\* A request that failed uploading its third layer after the first two
\* were put: both are in the bucket.
C3_Witness ==
  \E r \in Req :
    /\ inp[r].names # <<>> /\ pc[r].at = "failed"
    /\ hist[r].failedAt = "upload"
    /\ Len(loc[r].responses) = 2
    /\ \A j \in 1..2 :
         /\ ArtifactKey(inp[r].names[j + 1].stem) \in DOMAIN store
         /\ store[ArtifactKey(inp[r].names[j + 1].stem)].writer = inp[r].id

\* The message of each stage's failure.
StageMessages ==
  {<<"buffer", "Buffer analysis failed">>,
   <<"rasterize", "Rasterization failed">>,
   <<"mask", "Masking failed">>,
   <<"upload", "File upload to Minio failed">>,
   <<"presign", "Failed to generate presigned URLs">>,
   <<"overlay", "Weighted overlay analysis failed">>,
   <<"upload_result", "File upload to Minio failed">>}

\* C4: a request in which a stage failed has answered with status 500 and
\* the message of that stage, the failed attempt is the last step the
\* request took, and no request attempts a stage of a layer twice.
C4_StageFailure ==
  \A r \in Req :
    /\ pc[r].at = "failed" =>
         /\ resp[r].status = 500
         /\ <<hist[r].failedAt, resp[r].detail>> \in StageMessages
         /\ hist[r].tried[Len(hist[r].tried)].at = hist[r].failedAt
    /\ \A a, b \in 1..Len(hist[r].tried) :
         a # b => hist[r].tried[a] # hist[r].tried[b]

\* A request whose mask stage failed on its second layer, after its buffer
\* and rasterize stages and the mask of its first layer.
C4_Witness ==
  \E r \in Req :
    /\ pc[r].at = "failed"
    /\ hist[r].failedAt = "mask"
    /\ hist[r].tried[Len(hist[r].tried)] = At_("mask", 2)
    /\ resp[r].detail = "Masking failed"

\* C5: the raster a weighted-overlay request stores as its result is the
\* overlay of the rasters and weights of the request that was the last to
\* write the output path when the request uploaded it, which is another
\* request when that one's overlay was written in between.
C5_LastWriterWins ==
  \A r \in Req :
    inp[r].weights # <<>> /\ pc[r].at = "done" =>
      LET q == hist[r].last
          out == loc[r].put[1]
      IN  /\ q \in Req
          /\ out.kind = "raster"
          /\ \A c \in Cells(out.h, out.w) :
               out.px[c] = WeightedPixel(loc[q].rasters, inp[q].weights, c,
                                         Len(loc[q].rasters))

\* A weighted-overlay request that has stored, and answered with, a raster
\* that is not the overlay of its own rasters with its own weights but the
\* one of the other request, whose weights differ.
C5_Witness ==
  \E r \in Req :
    /\ inp[r].weights # <<>> /\ pc[r].at = "done"
    /\ hist[r].last # inp[r].id
    /\ inp[hist[r].last].weights # inp[r].weights
    /\ loc[hist[r].last].rasters = loc[r].rasters
    /\ \E c \in Cells(loc[r].put[1].h, loc[r].put[1].w) :
         loc[r].put[1].px[c] # WeightedPixel(loc[r].rasters, inp[r].weights, c,
                                             Len(loc[r].rasters))

\* The uploads request r has saved so far.
Saved(r) ==
  IF inp[r].names = <<>> THEN {}
  ELSE IF pc[r].at \in {"save_open", "save_write"} THEN 1..(pc[r].i - 1)
  ELSE 1..5

\* C6: the staging file of an upload is /tmp/<filename> whichever request
\* uploads it: once a request has saved an upload, that file exists and was
\* last written by the request or by another request that uploads the same
\* filename, and an upload request reads what another wrote only if the two
\* share a filename.
C6_SharedStaging ==
  \A r \in Req :
    /\ \A i \in Saved(r) :
         LET n == inp[r].names[i].stem \o inp[r].names[i].suffix
         IN  /\ n \in DOMAIN fs
             /\ \/ fs[n].writer = inp[r].id
                \/ \E q \in Req \ {r} : \E j \in 1..Len(inp[q].names) :
                     inp[q].names[j] = inp[r].names[i] /\ fs[n].writer = inp[q].id
    /\ inp[r].names # <<>> /\ hist[r].foreign =>
         \E q \in Req \ {r} : \E i, j \in 1..5 :
           inp[q].names # <<>> /\ inp[q].names[j] = inp[r].names[i]

\* An upload request that ran its stages on the layers another request
\* uploaded under the same filenames, and stored the other's artifacts.
C6_Witness ==
  \E r \in Req : \E q \in Req \ {r} :
    /\ inp[r].names # <<>> /\ inp[q].names = inp[r].names
    /\ inp[q].data # inp[r].data
    /\ hist[r].foreign
    /\ pc[r].at = "done"
    /\ \A i \in 1..3 : loc[r].put[i] = Artifact(inp[q].data, i, build)

\* The cells within the buffer distance of the features of a raw layer.
Footprint(vec) == UNION {Near(vec.geoms[k].touch) : k \in 1..Len(vec.geoms)}

\* The cells the AOI reaches.
Aoi(vec) == UNION {vec.geoms[k].touch : k \in 1..Len(vec.geoms)}

\* C8 as stated: an upload request that was served undisturbed returns
\* three {bucket, key, url} triples, and each raster it has stored has at
\* most the reference raster's shape and is nonzero only in cells that lie
\* within the buffered footprint of its layer and within the AOI.
C8_FootprintOnly ==
  \A r \in Req :
    inp[r].names # <<>> /\ pc[r].at = "done" /\ ~hist[r].foreign =>
      /\ resp[r].status = 200
      /\ Len(resp[r].content) = 3
      /\ \A i \in 1..3 :
           LET ras == loc[r].put[i]
               entry == resp[r].content[i]
           IN  /\ entry.bucket_name = "bucket1"
               /\ entry.file_path = ArtifactKey(inp[r].names[i + 1].stem)
               /\ entry.presigned_url = [bucket |-> "bucket1", key |-> entry.file_path]
               /\ ras.kind = "raster"
               /\ ras.h <= inp[r].data[5].h /\ ras.w <= inp[r].data[5].w
               /\ \A p \in Cells(ras.h, ras.w) :
                    ras.px[p] # 0 =>
                      CellOf(ras, p) \in Footprint(inp[r].data[i + 1])
                                           \cap Aoi(inp[r].data[1])

\* The stems of the layers the overlay's keys are derived from.
OverlayStems == <<"river_dang", "road_dang", "settlement_area_dang">>

Preparation == {At_(at, i) : at \in {"buffer", "rasterize", "mask"}, i \in 1..3}

\* The puts of request r, and the objects in the bucket that it wrote.
PutsBy(r) == {k \in 1..Len(putlog) : putlog[k].by = inp[r].id}

ObjectsBy(r) == {key \in DOMAIN store : store[key].writer = inp[r].id}

\* C11: an upload request has put an object only after its buffer,
\* rasterize and mask stages were attempted and succeeded for all three
\* layers; and a request that failed in the buffer, rasterize or mask stage
\* of a layer has put nothing and wrote no object of the bucket.
C11_NoPutBeforeMasked ==
  \A r \in Req :
    inp[r].names # <<>> =>
      /\ PutsBy(r) # {} \/ ObjectsBy(r) # {} =>
           /\ Len(loc[r].buffered) = 3
           /\ Len(loc[r].rasterized) = 3
           /\ Len(loc[r].masked) = 3
           /\ \A s \in Preparation :
                \E k \in 1..Len(hist[r].tried) : hist[r].tried[k] = s
           /\ hist[r].failedAt \notin {"buffer", "rasterize", "mask"}
      /\ pc[r].at = "failed" /\ hist[r].failedAt \in {"buffer", "rasterize", "mask"} =>
           PutsBy(r) = {} /\ ObjectsBy(r) = {}

\* A request that failed masking its third layer, after every other
\* preparation stage succeeded, over a bucket that held the objects of an
\* earlier upload: they are all there as they were.
C11_Witness ==
  \E r \in Req :
    /\ inp[r].names = Canonical
    /\ pc[r].at = "failed"
    /\ hist[r].tried[Len(hist[r].tried)] = At_("mask", 3)
    /\ Len(loc[r].masked) = 2
    /\ store = Stored(SceneA, build)
    /\ putlog = StoredLog(SceneA, build)

====
